---- MODULE Spec2Model ----
(***************************************************************************)
(* Egress & Occupant Load Calculator (src/app.py): the calculation engine  *)
(* (table lookup, IEEE-754 double arithmetic, math.ceil) and the Streamlit *)
(* session (buildings, current index, project name, history, import and    *)
(* export of the project document).                                        *)
(***************************************************************************)
EXTENDS Integers, Sequences, FiniteSets, TLC

(***************************************************************************)
(* Python float: IEEE-754 binary64, round-to-nearest-even.  A float is     *)
(* [m, e] with value m * 2^e, m a 53-bit natural (2^52 <= m < 2^53) or 0.  *)
(* A double is a multiple of 2^MinExponent: below 2^-1022 (subnormal) the  *)
(* low bits of m are 0 and e is below MinExponent.  The largest double is  *)
(* never approached.                                                       *)
(* Naturals wider than TLC's integers are little-endian limb sequences.    *)
(***************************************************************************)
MantissaBits == 53
MinExponent == -1074
LimbBits == 27
Limbs == 4

W == 2^LimbBits

\* the limbs of n < W^2, lowest first, filled with zeros from limb i on
RECURSIVE LimbsFrom(_, _)
LimbsFrom(n, i) == IF i > Limbs THEN <<>> ELSE <<n % W>> \o LimbsFrom(n \div W, i + 1)

BigFromInt(n) == LimbsFrom(n, 1)

BigZero == BigFromInt(0)

\* 2^k as a limb sequence, 0 <= k < Limbs * LimbBits
RECURSIVE BigPow2From(_, _)
BigPow2From(k, i) ==
    IF i > Limbs THEN <<>>
    ELSE <<IF i = (k \div LimbBits) + 1 THEN 2^(k % LimbBits) ELSE 0>> \o BigPow2From(k, i + 1)

BigPow2(k) == BigPow2From(k, 1)

BigIsZero(a) == a = BigZero

BigOdd(a) == a[1] % 2 = 1

RECURSIVE BigAddFrom(_, _, _, _)
BigAddFrom(a, b, i, c) ==
    IF i > Limbs THEN <<>>
    ELSE LET s == a[i] + b[i] + c
         IN  <<s % W>> \o BigAddFrom(a, b, i + 1, s \div W)

BigAdd(a, b) == BigAddFrom(a, b, 1, 0)

\* a - b for a >= b
RECURSIVE BigSubFrom(_, _, _, _)
BigSubFrom(a, b, i, c) ==
    IF i > Limbs THEN <<>>
    ELSE LET s == a[i] - b[i] - c
         IN  <<IF s < 0 THEN s + W ELSE s>> \o BigSubFrom(a, b, i + 1, IF s < 0 THEN 1 ELSE 0)

BigSub(a, b) == BigSubFrom(a, b, 1, 0)

RECURSIVE BigGeqFrom(_, _, _)
BigGeqFrom(a, b, i) ==
    IF i = 0 THEN TRUE
    ELSE IF a[i] # b[i] THEN a[i] > b[i]
    ELSE BigGeqFrom(a, b, i - 1)

BigGeq(a, b) == BigGeqFrom(a, b, Limbs)

BigDouble(a) == BigAdd(a, a)

\* floor(a / 2)
RECURSIVE BigHalfFrom(_, _)
BigHalfFrom(a, i) ==
    IF i > Limbs THEN <<>>
    ELSE <<(a[i] \div 2) + (IF i < Limbs /\ a[i + 1] % 2 = 1 THEN W \div 2 ELSE 0)>>
         \o BigHalfFrom(a, i + 1)

BigHalf(a) == BigHalfFrom(a, 1)

\* a * 2^k; the recursion halves k to stay shallow
RECURSIVE BigShl(_, _)
BigShl(a, k) ==
    IF k = 0 \/ BigIsZero(a) THEN a
    ELSE IF k = 1 THEN BigDouble(a)
    ELSE BigShl(BigShl(a, k \div 2), k - (k \div 2))

\* one step of shift-and-add multiplication; st = <<a * 2^i, b \div 2^i, sum so far>>
MulStep(st) ==
    <<BigDouble(st[1]), BigHalf(st[2]), IF BigOdd(st[2]) THEN BigAdd(st[3], st[1]) ELSE st[3]>>

\* k steps, or fewer when no bit of b is left
RECURSIVE MulSteps(_, _)
MulSteps(st, k) ==
    IF k = 0 \/ BigIsZero(st[2]) THEN st
    ELSE IF k = 1 THEN MulStep(st)
    ELSE MulSteps(MulSteps(st, k \div 2), k - (k \div 2))

\* a * b for b < 2^53
BigMul(a, b) == MulSteps(<<a, b, BigZero>>, MantissaBits)[3]

\* the value of a limb sequence that fits TLC's integers
BigToInt(a) == a[1] + W * a[2]

\* one halving that keeps the fraction; st = <<m, guard, sticky>> stands for
\* m + guard/2 + (a positive amount below 1/2 iff sticky)
ShrStep(st) == <<BigHalf(st[1]), BigOdd(st[1]), st[2] \/ st[3]>>

\* k halvings
RECURSIVE ShrSteps(_, _)
ShrSteps(st, k) ==
    IF k = 0 THEN st
    ELSE IF BigIsZero(st[1]) THEN <<st[1], FALSE, st[2] \/ st[3]>>
    ELSE IF k = 1 THEN ShrStep(st)
    ELSE ShrSteps(ShrSteps(st, k \div 2), k - (k \div 2))

FloatZero == [m |-> BigZero, e |-> 0]

\* the smallest double above 0: 2^MinExponent (5e-324)
MinFloat == [m |-> BigPow2(MantissaBits - 1), e |-> MinExponent - (MantissaBits - 1)]

IsZero(x) == BigIsZero(x.m)

\* round-to-nearest-even of (m + fraction) * 2^e, m < 2^53, where the fraction
\* is given by its first bit (guard) and whether any later bit is set (sticky)
RoundEven(m, e, guard, sticky) ==
    IF guard /\ (sticky \/ BigOdd(m))
    THEN LET up == BigAdd(m, BigFromInt(1))
         IN  IF BigGeq(up, BigPow2(MantissaBits))
             THEN [m |-> BigHalf(up), e |-> e + 1]
             ELSE [m |-> up, e |-> e]
    ELSE [m |-> m, e |-> e]

\* m * 2^e for m > 0 with the 53-bit mantissa of the representation
RECURSIVE Normalised(_, _)
Normalised(m, e) ==
    IF BigGeq(m, BigPow2(MantissaBits - 1)) THEN [m |-> m, e |-> e]
    ELSE Normalised(BigDouble(m), e - 1)

\* a rounded [m, e] in the representation: below 2^-1022 m has fewer than 53 bits
Represented(r) ==
    IF r.e > MinExponent THEN r
    ELSE IF BigIsZero(r.m) THEN FloatZero
    ELSE Normalised(r.m, r.e)

\* (m + fraction) * 2^e rounded at bit number shift of m
RoundAt(m, e, sticky, shift) ==
    Represented(RoundEven(ShrSteps(<<m, FALSE, sticky>>, shift)[1], e + shift,
                          ShrSteps(<<m, FALSE, sticky>>, shift)[2],
                          ShrSteps(<<m, FALSE, sticky>>, shift)[3]))

\* the bits to cut from m to leave 53, or fewer when the result is below
\* 2^-1022 (gradual underflow to a multiple of 2^MinExponent)
CutBits(e, cut) == IF e + cut < MinExponent THEN MinExponent - e ELSE cut

\* the double nearest to (m + fraction) * 2^e, where m has 53 + k or 54 + k bits
RoundFloat(m, e, sticky, k) ==
    RoundAt(m, e, sticky,
            CutBits(e, IF BigGeq(m, BigPow2(MantissaBits + k)) THEN k + 1 ELSE k))

\* the number of bits of n > 0
BitLen(n) == CHOOSE k \in 1..31 : 2^(k - 1) <= n /\ (k = 31 \/ n < 2^k)

\* float(n) for a Python int 0 <= n < 2^31: exact
FromInt(n) ==
    IF n = 0 THEN FloatZero
    ELSE [m |-> BigShl(BigFromInt(n), MantissaBits - BitLen(n)), e |-> BitLen(n) - MantissaBits]

\* x * y: the product of two 53-bit mantissas has 105 or 106 bits
FMul(x, y) ==
    IF IsZero(x) \/ IsZero(y) THEN FloatZero
    ELSE RoundFloat(BigMul(x.m, y.m), x.e + y.e, FALSE, MantissaBits - 1)

\* one step of long division; st = <<quotient so far, remainder>>
DivStep(st, d) ==
    IF BigGeq(st[2], d)
    THEN <<BigAdd(BigDouble(st[1]), BigFromInt(1)), BigDouble(BigSub(st[2], d))>>
    ELSE <<BigDouble(st[1]), BigDouble(st[2])>>

\* k steps; once the remainder is 0 the quotient is only shifted
RECURSIVE DivSteps(_, _, _)
DivSteps(st, d, k) ==
    IF k = 0 THEN st
    ELSE IF BigIsZero(st[2]) THEN <<BigShl(st[1], k), st[2]>>
    ELSE IF k = 1 THEN DivStep(st, d)
    ELSE DivSteps(DivSteps(st, d, k \div 2), d, k - (k \div 2))

\* x / y for y # 0: floor(x.m * 2^54 / y.m) has 54 or 55 bits, a remainder is sticky
FDiv(x, y) ==
    IF IsZero(x) THEN FloatZero
    ELSE LET qr == DivSteps(<<BigZero, x.m>>, y.m, MantissaBits + 2)
         IN  RoundFloat(qr[1], x.e - y.e - (MantissaBits + 1), ~BigIsZero(qr[2]), 1)

\* math.ceil(x) for 0 <= x < 2^31
Ceil(x) ==
    IF IsZero(x) THEN 0
    ELSE IF x.e >= 0 THEN BigToInt(BigShl(x.m, x.e))
    ELSE IF -x.e > MantissaBits THEN 1
    ELSE LET s == ShrSteps(<<x.m, FALSE, FALSE>>, -x.e)
         IN  BigToInt(s[1]) + (IF s[2] \/ s[3] THEN 1 ELSE 0)

\* a decimal literal num/den as Python reads it: the nearest double
Dec(num, den) == FDiv(FromInt(num), FromInt(den))

\* exact comparison of two floats: x <= y
FLeq(x, y) ==
    IF IsZero(x) THEN TRUE
    ELSE IF IsZero(y) THEN FALSE
    ELSE IF x.e >= y.e
         THEN x.e - y.e < MantissaBits /\ BigGeq(y.m, BigShl(x.m, x.e - y.e))
         ELSE y.e - x.e >= MantissaBits \/ BigGeq(BigShl(y.m, y.e - x.e), x.m)

(***************************************************************************)
(* Python values.  None is the empty tuple and a present value v is <<v>>; *)
(* the empty dict {} of a new building's inputs is the empty tuple too.    *)
(***************************************************************************)
None == <<>>
Some(v) == <<v>>

(***************************************************************************)
(* The code tables.                                                        *)
(***************************************************************************)
Versions == {"2021", "2018", "2015", "2012"}

Occupancies ==
    {"Assembly (Less Concentrated)", "Assembly (Standing Space)", "Business",
     "Educational", "Mercantile", "Residential"}

IBC_DATA ==
    [v \in Versions |->
        [o \in Occupancies |->
            CASE o = "Assembly (Less Concentrated)" -> 15
              [] o = "Assembly (Standing Space)" -> 5
              [] o = "Business" -> IF v \in {"2021", "2018"} THEN 150 ELSE 100
              [] o = "Educational" -> 20
              [] o = "Mercantile" -> 60
              [] o = "Residential" -> 200]]

EGRESS_FACTORS ==
    [with_sprinklers |-> [stairs |-> Dec(2, 10), other |-> Dec(15, 100)],
     without_sprinklers |-> [stairs |-> Dec(3, 10), other |-> Dec(2, 10)]]

UNIT_CONVERSION ==
    [area |-> [to_metric |-> Dec(92903, 1000000), to_imperial |-> Dec(107639, 10000)],
     length |-> [to_metric |-> Dec(3048, 10000), to_imperial |-> Dec(328084, 100000)],
     width |-> [to_metric |-> Dec(254, 10), to_imperial |-> Dec(393701, 10000000)]]

\* IBC minimum door width, inches
MinDoorWidth == 32

(***************************************************************************)
(* The calculation engine.                                                 *)
(***************************************************************************)
\* a lookup that fails for a missing code version only
LookupFails_by_version(ibc_version, occupancy) == ibc_version \notin DOMAIN IBC_DATA

\* IBC_DATA[ibc_version][occupancy] raises KeyError
LookupFails(ibc_version, occupancy) ==
    ibc_version \notin DOMAIN IBC_DATA \/ occupancy \notin DOMAIN IBC_DATA[ibc_version]

get_area_factor(ibc_version, occupancy, units) ==
    LET factor == FromInt(IBC_DATA[ibc_version][occupancy])
    IN  IF units = "metric" THEN FMul(factor, UNIT_CONVERSION.area.to_metric) ELSE factor

\* calculate_occupant_load with the operands of the division exchanged
calculate_occupant_load_inverted(area, factor) == Ceil(FDiv(factor, area))

calculate_occupant_load(area, factor) == Ceil(FDiv(area, factor))

\* calculate_egress_widths with the sprinkler condition negated
calculate_egress_widths_negated(occupant_load, has_sprinklers) ==
    LET factors == IF ~has_sprinklers THEN EGRESS_FACTORS.with_sprinklers
                   ELSE EGRESS_FACTORS.without_sprinklers
    IN  [stairs |-> Ceil(FMul(FromInt(occupant_load), factors.stairs)),
         other |-> Ceil(FMul(FromInt(occupant_load), factors.other))]

calculate_egress_widths(occupant_load, has_sprinklers) ==
    LET factors == IF has_sprinklers THEN EGRESS_FACTORS.with_sprinklers
                   ELSE EGRESS_FACTORS.without_sprinklers
    IN  [stairs |-> Ceil(FMul(FromInt(occupant_load), factors.stairs)),
         other |-> Ceil(FMul(FromInt(occupant_load), factors.other))]

\* convert_units that multiplies by the to_metric constant whatever the direction
convert_units_one_way(value, conversion_type, direction) ==
    IF value = None \/ IsZero(value) \/ conversion_type \notin DOMAIN UNIT_CONVERSION
    THEN value
    ELSE FMul(value, UNIT_CONVERSION[conversion_type].to_metric)

\* value is None or a float; a direction the kind does not list multiplies by 1
convert_units(value, conversion_type, direction) ==
    IF value = None \/ IsZero(value) \/ conversion_type \notin DOMAIN UNIT_CONVERSION
    THEN value
    ELSE LET factor == IF direction \in DOMAIN UNIT_CONVERSION[conversion_type]
                       THEN UNIT_CONVERSION[conversion_type][direction]
                       ELSE FromInt(1)
         IN  FMul(value, factor)

\* calculate_door_width without the max(..., 32) of its last line
calculate_door_width_unclamped(occupant_load, num_exits, has_sprinklers) ==
    LET total_width == calculate_egress_widths(occupant_load, has_sprinklers).other
    IN  Ceil(FDiv(FromInt(total_width), FromInt(num_exits)))

\* calculate_door_width that shares the width among one exit more than there are
calculate_door_width_short(occupant_load, num_exits, has_sprinklers) ==
    LET total_width == calculate_egress_widths(occupant_load, has_sprinklers).other
        width_per_door == Ceil(FDiv(FromInt(total_width), FromInt(num_exits + 1)))
    IN  IF width_per_door > MinDoorWidth THEN width_per_door ELSE MinDoorWidth

calculate_door_width(occupant_load, num_exits, has_sprinklers) ==
    LET total_width == calculate_egress_widths(occupant_load, has_sprinklers).other
        width_per_door == Ceil(FDiv(FromInt(total_width), FromInt(num_exits)))
    IN  IF width_per_door > MinDoorWidth THEN width_per_door ELSE MinDoorWidth

(***************************************************************************)
(* The session (st.session_state), what the last script run showed, the    *)
(* wall clock read by datetime.now(), and the last document handed to the  *)
(* browser by the export button.                                           *)
(***************************************************************************)
VARIABLES
    current_units,            \* 'imperial' or 'metric'
    buildings,                \* list of building dicts
    current_building_index,
    project_name,
    calculation_history,      \* list of history items, most recent first
    show_advanced,
    show_history,
    now,                      \* what datetime.now() returns next
    message,                  \* st.error / st.success shown by the last run
    download,                 \* None or Some(exported document)
    args,                     \* None or Some(arguments of a direct engine call)
    ret                       \* None or Some(what that call returned)

session == <<current_units, buildings, current_building_index, project_name,
             calculation_history, show_advanced, show_history>>

vars == <<current_units, buildings, current_building_index, project_name,
          calculation_history, show_advanced, show_history, now, message,
          download, args, ret>>

\* most entries calculation_history keeps (src/app.py:379)
HistoryLimit == 50

(***************************************************************************)
(* Bounds of the model and the inputs it draws.                            *)
(***************************************************************************)
\* the clock stops handlers that read it once it shows MaxClock
MaxClock == 2
\* the longest building list the Add button is pressed to
MaxBuildings == 2
\* the clock bound of the long session that fills the history
MaxSaves == 52
\* the largest occupant load handed to calculate_egress_widths directly
MaxOccupants == 160
\* the most exits handed to calculate_door_width directly
MaxExits == 4
\* the clock bound of the session that calculates again and again
MaxRuns == 4

ProjectNames == {"", "Tower"}

\* the form as the widgets return it; number inputs are floats, exit_doors an int
Form(state, ibc_version, occupancy, floor_area, has_sprinklers, exit_doors) ==
    [state |-> state, ibc_version |-> ibc_version, occupancy |-> occupancy,
     floor_area |-> floor_area, has_sprinklers |-> has_sprinklers,
     travel_distance |-> FloatZero, exit_doors |-> exit_doors]

OfficeForm == Form("Texas", "2021", "Business", FromInt(1000), "Yes", 2)

CompleteForms == {OfficeForm}

\* OfficeForm with one required widget left at its default
IncompleteForms ==
    {[OfficeForm EXCEPT !.state = ""], [OfficeForm EXCEPT !.ibc_version = ""],
     [OfficeForm EXCEPT !.occupancy = ""], [OfficeForm EXCEPT !.floor_area = FloatZero],
     [OfficeForm EXCEPT !.has_sprinklers = ""]}

Forms == CompleteForms \cup IncompleteForms

\* a hall without sprinklers and with one exit door
HallForm == Form("Texas", "2015", "Assembly (Standing Space)", Dec(278709, 100), "No", 1)

\* the smallest floor area above 0 that the number input returns
TinyForm == Form("Texas", "2021", "Business", MinFloat, "Yes", 2)

\* the forms of a session that calculates again and again: two that pass the
\* validation and two that do not
ListedForms ==
    {HallForm, TinyForm,
     [HallForm EXCEPT !.floor_area = FloatZero], [HallForm EXCEPT !.has_sprinklers = ""]}

\* a code version and an occupancy that IBC_DATA does not list; the select
\* boxes do not offer them
UnlistedForms ==
    {[OfficeForm EXCEPT !.ibc_version = "2009"], [OfficeForm EXCEPT !.occupancy = "Storage"]}

Units == {"imperial", "metric"}

(***************************************************************************)
(* The Calculate handler's computation (the body of its try block).        *)
(***************************************************************************)
\* the validation without floor_area > 0
FieldsFilled_any_area(form) ==
    /\ form.state # ""
    /\ form.ibc_version # ""
    /\ form.occupancy # ""
    /\ form.has_sprinklers # ""

\* all([state, ibc_version, occupancy, floor_area > 0, has_sprinklers])
FieldsFilled(form) ==
    /\ form.state # ""
    /\ form.ibc_version # ""
    /\ form.occupancy # ""
    /\ ~FLeq(form.floor_area, FloatZero)
    /\ form.has_sprinklers # ""

\* prepare_results that stores the factor of the table, whatever the units
prepare_results_imperial_factor(form, units, advanced) ==
    LET has_sprinklers_bool == form.has_sprinklers = "Yes"
        occupant_load_factor == get_area_factor(form.ibc_version, form.occupancy, units)
        occupant_load == calculate_occupant_load(form.floor_area, occupant_load_factor)
        egress_widths == calculate_egress_widths(occupant_load, has_sprinklers_bool)
        with_doors == advanced /\ form.exit_doors > 0
    IN  [occupant_load |-> occupant_load,
         egress_widths |-> egress_widths,
         door_width |-> IF with_doors
                        THEN Some(calculate_door_width(occupant_load, form.exit_doors,
                                                       has_sprinklers_bool))
                        ELSE None,
         total_width |-> IF with_doors THEN Some(egress_widths.other) ELSE None,
         inputs |-> [state |-> form.state,
                     ibc_version |-> form.ibc_version,
                     occupancy |-> form.occupancy,
                     floor_area |-> form.floor_area,
                     has_sprinklers |-> has_sprinklers_bool,
                     occupant_load_factor |-> get_area_factor(form.ibc_version, form.occupancy,
                                                             "imperial"),
                     travel_distance |-> IF advanced THEN Some(form.travel_distance) ELSE None,
                     exit_doors |-> IF advanced THEN Some(form.exit_doors) ELSE None]]

\* the results dict of a form; travel_distance and exit_doors exist only when
\* the advanced widgets are shown
prepare_results(form, units, advanced) ==
    LET has_sprinklers_bool == form.has_sprinklers = "Yes"
        occupant_load_factor == get_area_factor(form.ibc_version, form.occupancy, units)
        occupant_load == calculate_occupant_load(form.floor_area, occupant_load_factor)
        egress_widths == calculate_egress_widths(occupant_load, has_sprinklers_bool)
        with_doors == advanced /\ form.exit_doors > 0
    IN  [occupant_load |-> occupant_load,
         egress_widths |-> egress_widths,
         door_width |-> IF with_doors
                        THEN Some(calculate_door_width(occupant_load, form.exit_doors,
                                                       has_sprinklers_bool))
                        ELSE None,
         total_width |-> IF with_doors THEN Some(egress_widths.other) ELSE None,
         inputs |-> [state |-> form.state,
                     ibc_version |-> form.ibc_version,
                     occupancy |-> form.occupancy,
                     floor_area |-> form.floor_area,
                     has_sprinklers |-> has_sprinklers_bool,
                     occupant_load_factor |-> occupant_load_factor,
                     travel_distance |-> IF advanced THEN Some(form.travel_distance) ELSE None,
                     exit_doors |-> IF advanced THEN Some(form.exit_doors) ELSE None]]

\* prepare_results of every form that passes validation, computed once
ResultsTable ==
    {<<form, units, advanced, prepare_results(form, units, advanced)>> :
        form \in {f \in Forms \cup ListedForms :
                    FieldsFilled(f) /\ ~LookupFails(f.ibc_version, f.occupancy)},
        units \in Units, advanced \in BOOLEAN}

results_of(form, units, advanced) ==
    (CHOOSE row \in ResultsTable :
        row[1] = form /\ row[2] = units /\ row[3] = advanced)[4]

(***************************************************************************)
(* json.dumps / json.load of the project document.  JSON null is           *)
(* <<"null">>, a present value <<"value", v>>, an object <<"object">> ({}) *)
(* or <<"object", members>>, a boolean the token "true" or "false";        *)
(* numbers and strings are written and read back unchanged.                *)
(***************************************************************************)
JsonNull == <<"null">>

dumps_optional(value) == IF value = None THEN JsonNull ELSE <<"value", value[1]>>

load_optional(json) == IF json = JsonNull THEN None ELSE Some(json[2])

dumps_inputs(inputs) ==
    [inputs EXCEPT !.has_sprinklers = IF @ THEN "true" ELSE "false",
                   !.travel_distance = dumps_optional(@),
                   !.exit_doors = dumps_optional(@)]

load_inputs(json) ==
    [json EXCEPT !.has_sprinklers = (@ = "true"),
                 !.travel_distance = load_optional(@),
                 !.exit_doors = load_optional(@)]

dumps_results(results) ==
    [results EXCEPT !.door_width = dumps_optional(@),
                    !.total_width = dumps_optional(@),
                    !.inputs = dumps_inputs(@)]

load_results(json) ==
    [json EXCEPT !.door_width = load_optional(@),
                 !.total_width = load_optional(@),
                 !.inputs = load_inputs(@)]

dumps_building(building) ==
    [id |-> building.id,
     name |-> building.name,
     inputs |-> IF building.inputs = <<>> THEN <<"object">>
                ELSE <<"object", dumps_inputs(building.inputs[1])>>,
     results |-> IF building.results = None THEN JsonNull
                 ELSE <<"value", dumps_results(building.results[1])>>]

load_building(json) ==
    [id |-> json.id,
     name |-> json.name,
     inputs |-> IF json.inputs = <<"object">> THEN <<>>
                ELSE Some(load_inputs(json.inputs[2])),
     results |-> IF json.results = JsonNull THEN None
                 ELSE Some(load_results(json.results[2]))]

\* a project file: text that is no JSON, a JSON array, or a JSON object whose
\* members 'name' and 'buildings' may each be missing
JsonFile(kind, name, building_list) == [kind |-> kind, name |-> name, buildings |-> building_list]

(***************************************************************************)
(* The session after init_session_state, before any widget is used.        *)
(***************************************************************************)
Init ==
    /\ current_units = "imperial"
    /\ buildings = <<>>
    /\ current_building_index = 0
    /\ project_name = ""
    /\ calculation_history = <<>>
    /\ show_advanced = FALSE
    /\ show_history = FALSE
    /\ now = 0
    /\ message = "none"
    /\ download = None
    /\ args = None
    /\ ret = None

\* what a script run leaves alone besides the session: no engine call is traced
Handled(shown) ==
    /\ message' = shown
    /\ UNCHANGED <<args, ret>>

\* the dict the two add buttons append; the name f"Building {n}" is <<"Building", n>>
new_building(n) == [id |-> now, name |-> <<"Building", n>>, inputs |-> <<>>, results |-> None]

\* the project name text input returns a changed value
SetProjectName(name) ==
    /\ name # project_name
    /\ project_name' = name
    /\ Handled("none")
    /\ UNCHANGED <<current_units, buildings, current_building_index, calculation_history,
                   show_advanced, show_history, now, download>>

ToggleUnits ==
    /\ current_units' = IF current_units = "imperial" THEN "metric" ELSE "imperial"
    /\ Handled("none")
    /\ UNCHANGED <<buildings, current_building_index, project_name, calculation_history,
                   show_advanced, show_history, now, download>>

AddFirstBuilding ==
    /\ buildings = <<>>
    /\ buildings' = Append(buildings, new_building(1))
    /\ current_building_index' = 0
    /\ now' = now + 1
    /\ Handled("none")
    /\ UNCHANGED <<current_units, project_name, calculation_history, show_advanced,
                   show_history, download>>

Previous ==
    /\ buildings # <<>>
    /\ current_building_index > 0
    /\ current_building_index' = current_building_index - 1
    /\ Handled("none")
    /\ UNCHANGED <<current_units, buildings, project_name, calculation_history,
                   show_advanced, show_history, now, download>>

\* Add with insert(0, ...) in place of append
Add_at_front ==
    /\ buildings # <<>>
    /\ buildings' = <<new_building(Len(buildings) + 1)>> \o buildings
    /\ current_building_index' = Len(buildings') - 1
    /\ now' = now + 1
    /\ Handled("none")
    /\ UNCHANGED <<current_units, project_name, calculation_history, show_advanced,
                   show_history, download>>

Add ==
    /\ buildings # <<>>
    /\ buildings' = Append(buildings, new_building(Len(buildings) + 1))
    /\ current_building_index' = Len(buildings') - 1
    /\ now' = now + 1
    /\ Handled("none")
    /\ UNCHANGED <<current_units, project_name, calculation_history, show_advanced,
                   show_history, download>>

NextBuilding ==
    /\ buildings # <<>>
    /\ current_building_index < Len(buildings) - 1
    /\ current_building_index' = current_building_index + 1
    /\ Handled("none")
    /\ UNCHANGED <<current_units, buildings, project_name, calculation_history,
                   show_advanced, show_history, now, download>>

\* New Project that empties the history too
NewProject_clearing_history ==
    /\ buildings' = <<>>
    /\ current_building_index' = 0
    /\ project_name' = ""
    /\ calculation_history' = <<>>
    /\ Handled("none")
    /\ UNCHANGED <<current_units, show_advanced, show_history, now, download>>

NewProject ==
    /\ buildings' = <<>>
    /\ current_building_index' = 0
    /\ project_name' = ""
    /\ Handled("none")
    /\ UNCHANGED <<current_units, calculation_history, show_advanced, show_history, now,
                   download>>

ShowHistory ==
    /\ show_history' = ~show_history
    /\ Handled("none")
    /\ UNCHANGED <<current_units, buildings, current_building_index, project_name,
                   calculation_history, show_advanced, now, download>>

ShowAdvanced ==
    /\ show_advanced' = ~show_advanced
    /\ Handled("none")
    /\ UNCHANGED <<current_units, buildings, current_building_index, project_name,
                   calculation_history, show_history, now, download>>

\* the dict the export writes; an empty project name is replaced
project_data ==
    [name |-> IF project_name # "" THEN project_name ELSE "Untitled Project",
     buildings |-> buildings,
     created_date |-> now,
     version |-> "2.1.0"]

RECURSIVE dumps_buildings(_)
dumps_buildings(list) ==
    IF list = <<>> THEN <<>>
    ELSE <<dumps_building(Head(list))>> \o dumps_buildings(Tail(list))

RECURSIVE load_buildings(_)
load_buildings(list) ==
    IF list = <<>> THEN <<>>
    ELSE <<load_building(Head(list))>> \o load_buildings(Tail(list))

\* json.dumps(project_data, indent=2)
json_dumps(data) ==
    [kind |-> "object", name |-> Some(data.name),
     buildings |-> Some(dumps_buildings(data.buildings)),
     created_date |-> data.created_date, version |-> data.version]

\* the export block and its download button, shown when there are buildings
\* (line 492 joins two statements; they are read as the two statements they are)
Export ==
    /\ buildings # <<>>
    /\ download' = Some(json_dumps(project_data))
    /\ now' = now + 1
    /\ Handled("none")
    /\ UNCHANGED session

\* imported without the reset of the current building index
imported_keeping_index(file) ==
    IF file.kind # "object" \/ file.name = <<>>
    THEN [project_name |-> project_name, buildings |-> buildings,
          current_building_index |-> current_building_index, message |-> "import_error"]
    ELSE IF file.buildings = <<>>
    THEN [project_name |-> file.name[1], buildings |-> buildings,
          current_building_index |-> current_building_index, message |-> "import_error"]
    ELSE [project_name |-> file.name[1], buildings |-> load_buildings(file.buildings[1]),
          current_building_index |-> current_building_index, message |-> "import_ok"]

\* what the import handler leaves in the session for an uploaded file:
\* json.load raises on text that is no JSON; project_data['name'] raises on an
\* array and on an object without 'name'; project_data['buildings'] raises on
\* an object without 'buildings', after the name was stored
imported(file) ==
    IF file.kind # "object" \/ file.name = <<>>
    THEN [project_name |-> project_name, buildings |-> buildings,
          current_building_index |-> current_building_index, message |-> "import_error"]
    ELSE IF file.buildings = <<>>
    THEN [project_name |-> file.name[1], buildings |-> buildings,
          current_building_index |-> current_building_index, message |-> "import_error"]
    ELSE [project_name |-> file.name[1], buildings |-> load_buildings(file.buildings[1]),
          current_building_index |-> 0, message |-> "import_ok"]

\* the file uploader holds a file
Import(file) ==
    \E after \in {imported(file)} :
        /\ project_name' = after.project_name
        /\ buildings' = after.buildings
        /\ current_building_index' = after.current_building_index
        /\ message' = after.message
        /\ UNCHANGED <<current_units, calculation_history, show_advanced, show_history, now,
                       download, args, ret>>

\* save_to_history without the cut to HistoryLimit
save_to_history_uncut(results) ==
    <<[id |-> now,
       date |-> now,
       project_name |-> IF project_name # "" THEN project_name ELSE "Untitled Project",
       building_index |-> current_building_index + 1,
       inputs |-> results.inputs,
       results |-> [occupant_load |-> results.occupant_load,
                    stair_width |-> results.egress_widths.stairs,
                    other_width |-> results.egress_widths.other,
                    door_width |-> results.door_width,
                    total_width |-> results.total_width],
       units |-> current_units]>> \o calculation_history

\* save_to_history with append in place of insert(0, ...)
save_to_history_appending(results) ==
    LET history_item ==
            [id |-> now,
             date |-> now,
             project_name |-> IF project_name # "" THEN project_name ELSE "Untitled Project",
             building_index |-> current_building_index + 1,
             inputs |-> results.inputs,
             results |-> [occupant_load |-> results.occupant_load,
                          stair_width |-> results.egress_widths.stairs,
                          other_width |-> results.egress_widths.other,
                          door_width |-> results.door_width,
                          total_width |-> results.total_width],
             units |-> current_units]
        inserted == Append(calculation_history, history_item)
    IN  IF Len(inserted) > HistoryLimit THEN SubSeq(inserted, 1, HistoryLimit) ELSE inserted

\* save_to_history that numbers the buildings from 0
save_to_history_zero_based(results) ==
    LET history_item ==
            [id |-> now,
             date |-> now,
             project_name |-> IF project_name # "" THEN project_name ELSE "Untitled Project",
             building_index |-> current_building_index,
             inputs |-> results.inputs,
             results |-> [occupant_load |-> results.occupant_load,
                          stair_width |-> results.egress_widths.stairs,
                          other_width |-> results.egress_widths.other,
                          door_width |-> results.door_width,
                          total_width |-> results.total_width],
             units |-> current_units]
        inserted == <<history_item>> \o calculation_history
    IN  IF Len(inserted) > HistoryLimit THEN SubSeq(inserted, 1, HistoryLimit) ELSE inserted

\* the new history: the item goes first and the list is cut to HistoryLimit
save_to_history(results) ==
    LET history_item ==
            [id |-> now,
             date |-> now,
             project_name |-> IF project_name # "" THEN project_name ELSE "Untitled Project",
             building_index |-> current_building_index + 1,
             inputs |-> results.inputs,
             results |-> [occupant_load |-> results.occupant_load,
                          stair_width |-> results.egress_widths.stairs,
                          other_width |-> results.egress_widths.other,
                          door_width |-> results.door_width,
                          total_width |-> results.total_width],
             units |-> current_units]
        inserted == <<history_item>> \o calculation_history
    IN  IF Len(inserted) > HistoryLimit THEN SubSeq(inserted, 1, HistoryLimit) ELSE inserted

\* Calculate that stores inputs and results on the first building
Calculate_first_building(form) ==
    /\ buildings # <<>>
    /\ UNCHANGED <<current_units, current_building_index, project_name, show_advanced,
                   show_history, download, args, ret>>
    /\ IF ~FieldsFilled(form)
       THEN /\ message' = "missing_fields"
            /\ UNCHANGED <<buildings, calculation_history, now>>
       ELSE IF LookupFails(form.ibc_version, form.occupancy)
       THEN /\ message' = "calc_error"
            /\ UNCHANGED <<buildings, calculation_history, now>>
       ELSE \E results \in {results_of(form, current_units, show_advanced)} :
                /\ buildings' = [buildings EXCEPT
                                    ![1].results = Some(results),
                                    ![1].inputs = Some(results.inputs)]
                /\ calculation_history' = save_to_history(results)
                /\ now' = now + 1
                /\ message' = "calc_ok"

\* the Calculate button; the main area is rendered only when there are buildings
Calculate(form) ==
    /\ buildings # <<>>
    /\ UNCHANGED <<current_units, current_building_index, project_name, show_advanced,
                   show_history, download, args, ret>>
    /\ IF ~FieldsFilled(form)
       THEN /\ message' = "missing_fields"
            /\ UNCHANGED <<buildings, calculation_history, now>>
       ELSE IF LookupFails(form.ibc_version, form.occupancy)
       THEN /\ message' = "calc_error"
            /\ UNCHANGED <<buildings, calculation_history, now>>
       ELSE \E results \in {results_of(form, current_units, show_advanced)} :
                /\ buildings' = [buildings EXCEPT
                                    ![current_building_index + 1].results = Some(results),
                                    ![current_building_index + 1].inputs = Some(results.inputs)]
                /\ calculation_history' = save_to_history(results)
                /\ now' = now + 1
                /\ message' = "calc_ok"

\* the Clear History button of the history panel
ClearHistory ==
    /\ buildings # <<>>
    /\ show_history
    /\ calculation_history # <<>>
    /\ calculation_history' = <<>>
    /\ Handled("none")
    /\ UNCHANGED <<current_units, buildings, current_building_index, project_name,
                   show_advanced, show_history, now, download>>

(***************************************************************************)
(* The files a user uploads: the last exported document, or a file written *)
(* by hand or by another tool.                                             *)
(***************************************************************************)
FileBuilding ==
    dumps_building([id |-> 0, name |-> <<"Building", 1>>, inputs |-> <<>>, results |-> None])

ForeignFiles ==
    {JsonFile("text", <<>>, <<>>),
     JsonFile("array", <<>>, <<>>),
     JsonFile("object", <<>>, Some(<<FileBuilding>>)),
     JsonFile("object", Some("Tower"), <<>>),
     JsonFile("object", Some("Tower"), Some(<<>>)),
     JsonFile("object", Some("Tower"), Some(<<FileBuilding>>))}

UploadedFiles == ForeignFiles \cup (IF download = None THEN {} ELSE {download[1]})

(***************************************************************************)
(* One script run: any widget.  Handlers that read the clock are offered   *)
(* until it shows limit.                                                   *)
(***************************************************************************)
Run(limit) ==
    \/ \E name \in ProjectNames : SetProjectName(name)
    \/ ToggleUnits
    \/ now < limit /\ AddFirstBuilding
    \/ Previous
    \/ now < limit /\ Len(buildings) < MaxBuildings /\ Add
    \/ NextBuilding
    \/ NewProject
    \/ ShowHistory
    \/ ShowAdvanced
    \/ now < limit /\ Export
    \/ \E file \in UploadedFiles : Import(file)
    \/ \E form \in Forms : (FieldsFilled(form) => now < limit) /\ Calculate(form)
    \/ ClearHistory

\* a short session
Next == Run(MaxClock)

Spec == Init /\ [][Next]_vars

\* a long session: one building and the same calculation again and again until
\* the history is full, then any widget
NextHistory ==
    \/ Len(calculation_history) < HistoryLimit /\ now < MaxSaves /\ AddFirstBuilding
    \/ Len(calculation_history) < HistoryLimit /\ now < MaxSaves /\ Calculate(OfficeForm)
    \/ Len(calculation_history) >= HistoryLimit /\ Run(MaxSaves)

SpecHistory == Init /\ [][NextHistory]_vars

\* a session that adds buildings, moves between them and calculates: no
\* project name, no history panel, no export or import
RunForms(limit) ==
    \/ ToggleUnits
    \/ now < limit /\ AddFirstBuilding
    \/ Previous
    \/ now < limit /\ Len(buildings) < MaxBuildings /\ Add
    \/ NextBuilding
    \/ NewProject
    \/ ShowAdvanced
    \/ \E form \in ListedForms : (FieldsFilled(form) => now < limit) /\ Calculate(form)

NextForms == RunForms(MaxRuns)

SpecForms == Init /\ [][NextForms]_vars

\* the same session with Calculate also run on keys that the table lacks
NextLookup ==
    \/ NextForms
    \/ \E form \in UnlistedForms : Calculate(form)

SpecLookup == Init /\ [][NextLookup]_vars

(***************************************************************************)
(* The engine called directly: Init draws the arguments of one call, the   *)
(* actions make the call and, for the occupant load, call again with       *)
(* another area and the same factor.                                       *)
(***************************************************************************)
\* floor areas as typed into the number input
Areas ==
    {FromInt(1), Dec(9754815, 1000000), FromInt(150), Dec(1505, 10), FromInt(1000),
     Dec(278709, 100)}

OccupantLoadCalls ==
    {[fn |-> "calculate_occupant_load", ibc_version |-> v, occupancy |-> o, units |-> u,
      factor |-> get_area_factor(v, o, u), area |-> a] :
        v \in Versions, o \in Occupancies, u \in Units, a \in Areas}

EgressWidthCalls ==
    {[fn |-> "calculate_egress_widths", occupant_load |-> n, has_sprinklers |-> s] :
        n \in 0..MaxOccupants, s \in BOOLEAN}

\* every occupant load up to MaxOccupants, and MaxOccupants for each of up to
\* MaxExits exits
DoorLoads == (0..MaxOccupants) \cup {MaxOccupants * k : k \in 1..MaxExits}

DoorWidthCalls ==
    {[fn |-> "calculate_door_width", occupant_load |-> n, num_exits |-> k,
      has_sprinklers |-> s] :
        n \in DoorLoads, k \in 1..MaxExits, s \in BOOLEAN}

\* the kinds and directions of UNIT_CONVERSION and one of each it does not list
ConversionTypes == {"area", "length", "width", "volume"}

Directions == {"to_metric", "to_imperial", "to_nautical"}

\* first_value is None in a first call; in the call that converts a returned
\* value back it is the value the first call was given
ConvertCalls ==
    {[fn |-> "convert_units", value |-> x, conversion_type |-> t, direction |-> d,
      first_value |-> None] :
        x \in Areas \cup {FloatZero, None}, t \in ConversionTypes, d \in Directions}

InitCalc ==
    /\ current_units = "imperial"
    /\ buildings = <<>>
    /\ current_building_index = 0
    /\ project_name = ""
    /\ calculation_history = <<>>
    /\ show_advanced = FALSE
    /\ show_history = FALSE
    /\ now = 0
    /\ message = "none"
    /\ download = None
    /\ args \in {Some(call) : call \in OccupantLoadCalls \cup EgressWidthCalls
                                        \cup DoorWidthCalls \cup ConvertCalls}
    /\ ret = None

CallOccupantLoad ==
    /\ args # None /\ ret = None
    /\ args[1].fn = "calculate_occupant_load"
    /\ ret' = Some(calculate_occupant_load(args[1].area, args[1].factor))
    /\ UNCHANGED <<session, now, message, download, args>>

CallOccupantLoadAgain(area) ==
    /\ args # None /\ ret # None
    /\ args[1].fn = "calculate_occupant_load"
    /\ area # args[1].area
    /\ args' = Some([args[1] EXCEPT !.area = area])
    /\ ret' = Some(calculate_occupant_load(area, args[1].factor))
    /\ UNCHANGED <<session, now, message, download>>

CallEgressWidths ==
    /\ args # None /\ ret = None
    /\ args[1].fn = "calculate_egress_widths"
    /\ ret' = Some(calculate_egress_widths(args[1].occupant_load, args[1].has_sprinklers))
    /\ UNCHANGED <<session, now, message, download, args>>

CallDoorWidth ==
    /\ args # None /\ ret = None
    /\ args[1].fn = "calculate_door_width"
    /\ ret' = Some(calculate_door_width(args[1].occupant_load, args[1].num_exits,
                                         args[1].has_sprinklers))
    /\ UNCHANGED <<session, now, message, download, args>>

CallConvert ==
    /\ args # None /\ ret = None
    /\ args[1].fn = "convert_units"
    /\ ret' = Some(convert_units(args[1].value, args[1].conversion_type, args[1].direction))
    /\ UNCHANGED <<session, now, message, download, args>>

\* convert_units(convert_units(x, kind, 'to_metric'), kind, 'to_imperial')
CallConvertBack ==
    /\ args # None /\ ret # None
    /\ args[1].fn = "convert_units"
    /\ args[1].direction = "to_metric" /\ args[1].first_value = None
    /\ args' = Some([args[1] EXCEPT !.value = ret[1], !.direction = "to_imperial",
                                     !.first_value = Some(args[1].value)])
    /\ ret' = Some(convert_units(ret[1], args[1].conversion_type, "to_imperial"))
    /\ UNCHANGED <<session, now, message, download>>

NextCalc ==
    \/ CallOccupantLoad
    \/ \E area \in Areas : CallOccupantLoadAgain(area)
    \/ CallEgressWidths
    \/ CallDoorWidth
    \/ CallConvert
    \/ CallConvertBack

SpecCalc == InitCalc /\ [][NextCalc]_vars

(***************************************************************************)
(* Properties of the history (long session).                               *)
(***************************************************************************)
\* a run saved a calculation: only a successful Calculate shows "calc_ok", and
\* it reads the clock
Saved == message' = "calc_ok" /\ now' = now + 1

\* C1: the history never holds more than 50 entries, and a save made when 50
\* are present leaves 50: the new entry first, the entry that was last gone.
C1_HistoryCapped ==
    /\ [](Len(calculation_history) <= HistoryLimit)
    /\ [][(Saved /\ Len(calculation_history) = HistoryLimit)
            => /\ Len(calculation_history') = HistoryLimit
               /\ calculation_history'[1].id = now
               /\ \A i \in 1..HistoryLimit :
                    calculation_history'[i].id # calculation_history[HistoryLimit].id]_vars

\* the 51st save of the long session has happened: the first save (clock 1) is gone
C1_Evicted ==
    /\ Len(calculation_history) = HistoryLimit
    /\ calculation_history[1].id = HistoryLimit + 1
    /\ calculation_history[HistoryLimit].id = 2

\* C2: a run leaves the history as it is, or is Clear History and empties it,
\* or saves: the new entry is first, every entry kept moved down by one place
\* unchanged, and an entry is dropped only from the end of a full history.
C2_HistoryShifts ==
    [][\/ calculation_history' = calculation_history
       \/ ClearHistory /\ calculation_history' = <<>>
       \/ /\ Saved
          /\ Len(calculation_history') =
                IF Len(calculation_history) < HistoryLimit
                THEN Len(calculation_history) + 1 ELSE HistoryLimit
          /\ calculation_history'[1].id = now
          /\ \A i \in 1..(Len(calculation_history') - 1) :
                calculation_history'[i + 1] = calculation_history[i]]_vars

\* a save on top of earlier ones, in a history that is not full
C2_Shifted ==
    /\ Len(calculation_history) = 3
    /\ calculation_history[1].id > calculation_history[2].id
    /\ calculation_history[2].id > calculation_history[3].id

(***************************************************************************)
(* Properties of the session (short session).                              *)
(***************************************************************************)
\* C3, as stated: the current building index is within the bounds of the
\* building list in every state, the empty list included.
C3_IndexWithinBounds ==
    0 <= current_building_index /\ current_building_index < Len(buildings)

\* C3, amended: the current building index is within the bounds of a building
\* list that is not empty, and is 0 when the list is empty.
C3_IndexWithinBoundsOrZero ==
    IF buildings = <<>>
    THEN current_building_index = 0
    ELSE 0 <= current_building_index /\ current_building_index < Len(buildings)

\* a project with an empty building list was imported
C3_ImportedEmpty ==
    buildings = <<>> /\ message = "import_ok" /\ current_building_index = 0

\* a run keeps the buildings of the list where they are
KeepsBuildings ==
    /\ Len(buildings') >= Len(buildings)
    /\ \A i \in 1..Len(buildings) :
        buildings'[i].id = buildings[i].id /\ buildings'[i].name = buildings[i].name

\* C4: an add button appends the new building after the buildings of the list,
\* which stay as they are, and every run that is neither New Project nor an
\* import keeps each building of the list at its position.
C4_InsertionOrderStable ==
    [][/\ (AddFirstBuilding \/ Add)
            => buildings' = Append(buildings, buildings'[Len(buildings')])
       /\ \/ KeepsBuildings
          \/ NewProject
          \/ \E file \in UploadedFiles : Import(file)]_vars

\* a second building was added and then calculated
C4_SecondCalculated ==
    Len(buildings) = 2 /\ buildings[2].results # None /\ buildings[1].results = None

\* C5: exporting a project that has buildings and importing the exported
\* document gives back the same building list and the same project name.
C5_ExportImportRoundTrip ==
    buildings # <<>> =>
        LET after == imported(json_dumps(project_data))
        IN  after.buildings = buildings /\ after.project_name = project_name

\* C6: an import that fails leaves project name, building list and current
\* building index as they were.
C6_FailedImportKeepsSession ==
    [][\A file \in UploadedFiles :
        (Import(file) /\ message' = "import_error")
            => UNCHANGED <<project_name, buildings, current_building_index>>]_vars

\* a required input is absent: a selectbox left empty or a floor area of 0
MissingRequired(form) ==
    \/ form.state = ""
    \/ form.ibc_version = ""
    \/ form.occupancy = ""
    \/ form.has_sprinklers = ""
    \/ IsZero(form.floor_area)

\* C7: Calculate with a required input absent shows the missing-fields error
\* and leaves the buildings (inputs and results) and the history as they were.
C7_IncompleteFormRejected ==
    [][\A form \in Forms :
        (MissingRequired(form) /\ Calculate(form))
            => /\ message' = "missing_fields"
               /\ buildings' = buildings
               /\ calculation_history' = calculation_history]_vars

\* a calculated building, then a Calculate that was rejected
C7_RejectedAfterResults ==
    /\ message = "missing_fields"
    /\ buildings # <<>>
    /\ buildings[current_building_index + 1].results # None
    /\ calculation_history # <<>>

(***************************************************************************)
(* Properties of Calculate (session that calculates again and again).      *)
(***************************************************************************)
\* C14: a lookup with a code version or an occupancy that the table lacks
\* fails instead of returning a factor, and a Calculate that hits the failure
\* shows the calculation error and leaves buildings and history as they were.
C14_LookupFailureReported ==
    [][\A form \in UnlistedForms :
        /\ LookupFails(form.ibc_version, form.occupancy)
        /\ Calculate(form)
                => /\ message' = "calc_error"
                   /\ buildings' = buildings
                   /\ calculation_history' = calculation_history]_vars

\* a calculated building, then a Calculate whose lookup failed
C14_FailedAfterResults ==
    /\ message = "calc_error"
    /\ buildings # <<>>
    /\ buildings[current_building_index + 1].results # None
    /\ calculation_history # <<>>

\* C15: every stored result has an occupant load, a stair width and an
\* other-component width of at least 1; a door width, when present, is at
\* least 32 and comes with a total width equal to the other-component width.
C15_ResultsPositive ==
    \A i \in 1..Len(buildings) :
        buildings[i].results # None =>
            LET results == buildings[i].results[1]
            IN  /\ results.occupant_load >= 1
                /\ results.egress_widths.stairs >= 1
                /\ results.egress_widths.other >= 1
                /\ results.door_width # None =>
                        /\ results.door_width[1] >= 32
                        /\ results.total_width = Some(results.egress_widths.other)

\* the inputs dicts that a Calculate stores
StoredInputs == {row[4].inputs : row \in ResultsTable}

\* what the engine derives from stored inputs, computed once for each of them
Derivations ==
    [inputs \in StoredInputs |->
        LET occupant_load ==
                calculate_occupant_load(inputs.floor_area, inputs.occupant_load_factor)
        IN  [occupant_load |-> occupant_load,
             egress_widths |-> calculate_egress_widths(occupant_load, inputs.has_sprinklers)]]

\* the stored result of a building is what the engine derives from its stored inputs
DerivedFromInputs(building) ==
    IF building.results = None THEN building.inputs = <<>>
    ELSE LET results == building.results[1]
         IN  /\ building.inputs = Some(results.inputs)
             /\ results.inputs \in StoredInputs
             /\ results.occupant_load = Derivations[results.inputs].occupant_load
             /\ results.egress_widths = Derivations[results.inputs].egress_widths

\* C16: in every state each building with a stored result holds the inputs the
\* result was calculated from, the result being ceil(floor_area /
\* occupant_load_factor) and the egress widths of that load; no run changes a
\* building's inputs without its results or its results without its inputs.
C16_ResultsDerivedFromInputs ==
    /\ [](\A i \in 1..Len(buildings) : DerivedFromInputs(buildings[i]))
    /\ [][\A i \in 1..Len(buildings) :
            i <= Len(buildings') =>
                (buildings'[i].inputs # buildings[i].inputs
                    <=> buildings'[i].results # buildings[i].results)]_vars

\* a result calculated in metric units is kept after the units were toggled back
C16_MetricResultKept ==
    /\ current_units = "imperial"
    /\ buildings # <<>>
    /\ buildings[1].results # None
    /\ buildings[1].inputs[1].occupant_load_factor =
            get_area_factor("2021", "Business", "metric")

\* C17: a successful Calculate changes the inputs and results of the current
\* building and nothing else of the project: the other buildings, the number
\* of buildings, the current index, the project name and the units stay, and
\* the current building holds the one new pair.
C17_CalculateReplacesCurrentPair ==
    [][Saved =>
        /\ Len(buildings') = Len(buildings)
        /\ \A i \in 1..Len(buildings) :
                i # current_building_index + 1 => buildings'[i] = buildings[i]
        /\ current_building_index' = current_building_index
        /\ project_name' = project_name
        /\ current_units' = current_units
        /\ LET before == buildings[current_building_index + 1]
               after == buildings'[current_building_index + 1]
           IN  /\ after.id = before.id /\ after.name = before.name
               /\ DOMAIN after = DOMAIN before
               /\ Len(after.results) = 1 /\ Len(after.inputs) = 1
               /\ after.inputs[1] = after.results[1].inputs]_vars

\* both buildings calculated, the second after the first, with different forms
C17_BothCalculated ==
    /\ Len(buildings) = 2
    /\ buildings[1].results # None /\ buildings[2].results # None
    /\ buildings[1].results # buildings[2].results
    /\ message = "calc_ok" /\ current_building_index = 1

\* C18: a successful Calculate puts one entry in front of the history, with
\* the occupant load and the widths it stored on the current building, the
\* number of the current building (index + 1) and the units of the session;
\* a Calculate that was rejected or failed, like every other run, adds none.
C18_OneHistoryEntryPerCalculate ==
    [][IF Saved
       THEN /\ calculation_history' = <<calculation_history'[1]>> \o calculation_history
            /\ LET entry == calculation_history'[1]
                   results == buildings'[current_building_index + 1].results[1]
               IN  /\ entry.results = [occupant_load |-> results.occupant_load,
                                       stair_width |-> results.egress_widths.stairs,
                                       other_width |-> results.egress_widths.other,
                                       door_width |-> results.door_width,
                                       total_width |-> results.total_width]
                   /\ entry.building_index = current_building_index + 1
                   /\ entry.units = current_units
       ELSE calculation_history' = calculation_history]_vars

\* the second building calculated in metric units after the first in imperial
C18_TwoEntries ==
    /\ Len(calculation_history) = 2
    /\ calculation_history[1].building_index = 2
    /\ calculation_history[1].units = "metric"
    /\ calculation_history[2].building_index = 1
    /\ calculation_history[2].units = "imperial"
    /\ calculation_history[1].results.door_width # None

\* C19: New Project empties the building list and sets the current index to 0
\* and the project name to the empty string; it leaves the history and the
\* units as they were.
C19_NewProjectKeepsHistory ==
    [][NewProject =>
        /\ buildings' = <<>>
        /\ current_building_index' = 0
        /\ project_name' = ""
        /\ calculation_history' = calculation_history
        /\ current_units' = current_units]_vars

\* a project in metric units was discarded: its calculation is still in the history
C19_HistoryOfDiscardedProject ==
    /\ buildings = <<>> /\ project_name = "" /\ current_building_index = 0
    /\ current_units = "metric"
    /\ calculation_history # <<>>
    /\ calculation_history[1].project_name = "Tower"

(***************************************************************************)
(* Properties of the engine (direct calls), against exact arithmetic.      *)
(***************************************************************************)
\* a * 2^ea <= b * 2^eb for naturals a, b as limb sequences
ExactLeq(a, ea, b, eb) ==
    IF ea >= eb THEN BigGeq(b, BigShl(a, ea - eb)) ELSE BigGeq(BigShl(b, eb - ea), a)

\* area <= n * factor, exactly
CoveredBy(area, n, factor) ==
    ExactLeq(area.m, area.e, BigMul(factor.m, BigFromInt(n)), factor.e)

\* n is the smallest integer with n * factor >= area
IsCeilingOfQuotient(n, area, factor) ==
    n >= 1 /\ CoveredBy(area, n, factor) /\ ~CoveredBy(area, n - 1, factor)

OccupantLoadReturned ==
    args # None /\ ret # None /\ args[1].fn = "calculate_occupant_load"

EgressWidthsReturned ==
    args # None /\ ret # None /\ args[1].fn = "calculate_egress_widths"

\* C8: calculate_occupant_load(area, factor) is the ceiling of the exact
\* quotient area / factor, and 7 for area 1000 and factor 150.
C8_ExactCeiling ==
    OccupantLoadReturned =>
        /\ IsCeilingOfQuotient(ret[1], args[1].area, args[1].factor)
        /\ (args[1].area = FromInt(1000) /\ args[1].factor = FromInt(150)) => ret[1] = 7

\* C9: with the factor of a table entry, a call with a larger or equal area
\* returns a larger or equal occupant load.
C9_MonotoneInArea ==
    [][(OccupantLoadReturned /\ OccupantLoadReturned' /\ args'[1].factor = args[1].factor)
        => /\ FLeq(args[1].area, args'[1].area) => ret[1] <= ret'[1]
           /\ FLeq(args'[1].area, args[1].area) => ret'[1] <= ret[1]]_vars

\* 150.5 sq. ft. of business area hold 2 occupants, one more than 150 do
C9_OneMoreOccupant ==
    /\ OccupantLoadReturned
    /\ args[1].ibc_version = "2021" /\ args[1].occupancy = "Business"
    /\ args[1].units = "imperial" /\ args[1].area = Dec(1505, 10)
    /\ ret[1] = 2

\* the ceiling of a / b for integers a >= 0, b > 0
CeilDiv(a, b) == (a + b - 1) \div b

\* C10: calculate_egress_widths(n, sprinklered) is the exact ceiling of n * 0.2
\* (stairs) and n * 0.15 (other) when sprinklered, of n * 0.3 and n * 0.2 when
\* not; for n = 7 it is (2, 2) and (3, 2).
C10_EgressWidthsExact ==
    EgressWidthsReturned =>
        LET n == args[1].occupant_load
            sprinklered == args[1].has_sprinklers
        IN  /\ ret[1].stairs = CeilDiv((IF sprinklered THEN 2 ELSE 3) * n, 10)
            /\ ret[1].other = IF sprinklered THEN CeilDiv(15 * n, 100) ELSE CeilDiv(2 * n, 10)
            /\ n = 7 => ret[1] = IF sprinklered THEN [stairs |-> 2, other |-> 2]
                                 ELSE [stairs |-> 3, other |-> 2]

\* the widths for a load whose products 20 * 0.2 and 20 * 0.15 are integers
C10_ExactProduct ==
    /\ EgressWidthsReturned
    /\ args[1].occupant_load = 20 /\ args[1].has_sprinklers
    /\ ret[1] = [stairs |-> 4, other |-> 3]

DoorWidthReturned ==
    args # None /\ ret # None /\ args[1].fn = "calculate_door_width"

\* C11: calculate_door_width(n, num_exits, sprinklered) is the larger of 32 and
\* the exact ceiling of other / num_exits, other being the 'other' width of
\* calculate_egress_widths(n, sprinklered); it is never below 32, and it is 32
\* for n = 50, two exits, sprinklered.
C11_DoorWidthClamped ==
    DoorWidthReturned =>
        LET n == args[1].occupant_load
            num_exits == args[1].num_exits
            other == calculate_egress_widths(n, args[1].has_sprinklers).other
            shared == CeilDiv(other, num_exits)
        IN  /\ ret[1] = IF shared > 32 THEN shared ELSE 32
            /\ ret[1] >= 32
            /\ (n = 50 /\ num_exits = 2 /\ args[1].has_sprinklers) => ret[1] = 32

\* a door wider than the minimum whose share of the width was rounded up
C11_AboveMinimum ==
    /\ DoorWidthReturned
    /\ ret[1] > 32
    /\ args[1].num_exits > 1
    /\ ret[1] * args[1].num_exits >
            calculate_egress_widths(args[1].occupant_load, args[1].has_sprinklers).other

ConvertReturned ==
    args # None /\ ret # None /\ args[1].fn = "convert_units"

\* C12: convert_units returns the value it was given when the value is None or
\* zero or the kind is none of area, length, width; otherwise it returns the
\* value times the constant of the kind and direction.
C12_PassThroughOrScaled ==
    ConvertReturned =>
        LET value == args[1].value
            kind == args[1].conversion_type
            direction == args[1].direction
        IN  IF value = None \/ IsZero(value) \/ kind \notin {"area", "length", "width"}
            THEN ret[1] = value
            ELSE direction \in {"to_metric", "to_imperial"}
                    => ret[1] = FMul(value, UNIT_CONVERSION[kind][direction])

\* 1000 of a kind the table does not list came back as 1000
C12_UnknownKindPassed ==
    /\ ConvertReturned
    /\ args[1].conversion_type = "volume"
    /\ args[1].value = FromInt(1000)
    /\ ret[1] = FromInt(1000)

\* y is x within a relative error of 2^-50 (eight units in the last place)
WithinRounding(x, y) ==
    IF x = None \/ y = None THEN x = y
    ELSE IF IsZero(x) \/ IsZero(y) THEN IsZero(x) /\ IsZero(y)
    ELSE /\ ExactLeq(y.m, y.e, BigMul(x.m, BigAdd(BigPow2(50), BigFromInt(1))), x.e - 50)
         /\ ExactLeq(BigMul(x.m, BigSub(BigPow2(50), BigFromInt(1))), x.e - 50, y.m, y.e)

\* C13: an area converted to metric and back to imperial is the area it was,
\* within floating rounding.
C13_AreaRoundTrip ==
    (ConvertReturned /\ args[1].first_value # None /\ args[1].conversion_type = "area")
        => WithinRounding(args[1].first_value[1], ret[1])

\* C20: the door width times the number of exits is at least the 'other'
\* width of calculate_egress_widths for the same load and sprinkler setting.
C20_DoorsCoverWidth ==
    DoorWidthReturned =>
        ret[1] * args[1].num_exits >=
            calculate_egress_widths(args[1].occupant_load, args[1].has_sprinklers).other

\* doors wider than the minimum that share the width with nothing to spare
C20_ExactShare ==
    /\ DoorWidthReturned
    /\ ret[1] > 32
    /\ args[1].num_exits > 1
    /\ ret[1] * args[1].num_exits =
            calculate_egress_widths(args[1].occupant_load, args[1].has_sprinklers).other

====
